---- MODULE Spec2Model ----
(***************************************************************************)
(* Workflow controller of static/js/app.js: the submit handler (an async   *)
(* function suspended at `await fetch` and at `await response.json()`),    *)
(* the download click handler, the field input handler, the keydown        *)
(* handler, the browser's timer table and the DOM regions the handlers     *)
(* write.  One action is one run-to-completion step of the event loop.     *)
(*                                                                         *)
(* Texts are sequences of tokens (a token is a piece of text that the      *)
(* code never looks inside); field values are sequences of characters.     *)
(* German messages are written with ae/oe/ue for the umlauts.              *)
(***************************************************************************)
EXTENDS Integers, Sequences, FiniteSets, TLC

VARIABLES
    isProcessing,     \* let isProcessing (line 9)
    latestFilename,   \* let latestFilename (line 8), a JS value
    fieldValue,       \* companyInput.value
    inputError,       \* companyInput.classList contains 'error'
    submitDisabled,   \* #searchBtn.disabled
    btnLoading,       \* #searchBtn has class 'loading' (with its text and icon)
    errorText,        \* #errorMessage.textContent
    errorShown,       \* #errorMessage.classList contains 'show'
    resultsVisible,   \* #resultsSection.style.display = 'block'
    statusVisible,    \* #statusSection.style.display = 'block'
    statusEntry,      \* #statusList.innerHTML: the single entry [tag, msg]
    view,             \* the text of the result regions
    location,         \* window.location.href as last assigned by the controller
    calls,            \* the invocations of the submit handler that issued a request
    timers,           \* the browser's table of pending timers
    lastOutcome,      \* how the handling of the last accepted submission ended
    writer,           \* which submission wrote the summary / extracted-info block
    rendered          \* the result the success path last rendered to its end

vars == <<isProcessing, latestFilename, fieldValue, inputError, submitDisabled,
          btnLoading, errorText, errorShown, resultsVisible, statusVisible,
          statusEntry, view, location, calls, timers, lastOutcome, writer,
          rendered>>

-----------------------------------------------------------------------------
(* Bounds of the model                                                     *)

\* number of requests the model lets the controller issue
MaxSubs == 2
\* the quality scores the server sends lie in -MaxBelow .. MaxScore
MaxScore == 101
MaxBelow == 2

-----------------------------------------------------------------------------
(* Program constants                                                       *)

\* setTimeout(() => controller.abort(), 300000)
Deadline == 300000
\* setTimeout(() => clearError(), 10000)
ErrorHideDelay == 10000
\* input.length < 3, value.length >= 3
MinLen == 3
\* input.length > 200
MaxLen == 200

-----------------------------------------------------------------------------
(* JavaScript values: [t: type, s: text or items, n: number]               *)

Undef == [t |-> "undefined", s |-> <<>>, n |-> 0]
Str(toks) == [t |-> "string", s |-> toks, n |-> 0]
Num(k) == [t |-> "number", s |-> <<>>, n |-> k]
Arr(items) == [t |-> "array", s |-> items, n |-> 0]
Bool(b) == [t |-> "boolean", s |-> <<>>, n |-> IF b THEN 1 ELSE 0]

\* ToBoolean, as used by !x, x || y, if (x)
Truthy(x) ==
    CASE x.t = "string" -> x.s # <<>>
      [] x.t = "number" -> x.n # 0
      [] x.t = "boolean" -> x.n = 1
      [] x.t = "array" -> TRUE
      [] OTHER -> FALSE

Digit(d) ==
    CASE d = 0 -> "0" [] d = 1 -> "1" [] d = 2 -> "2" [] d = 3 -> "3"
      [] d = 4 -> "4" [] d = 5 -> "5" [] d = 6 -> "6" [] d = 7 -> "7"
      [] d = 8 -> "8" [] OTHER -> "9"

RECURSIVE NumToks(_)
\* ToString of an integer
NumToks(k) ==
    IF k < 0 THEN <<"-">> \o NumToks(0 - k)
    ELSE IF k < 10 THEN <<Digit(k)>>
    ELSE NumToks(k \div 10) \o <<Digit(k % 10)>>

\* ToString, as used by template literals and textContent
ToText(x) ==
    CASE x.t = "string" -> x.s
      [] x.t = "number" -> NumToks(x.n)
      [] x.t = "undefined" -> <<"undefined">>
      [] x.t = "null" -> <<"null">>
      [] OTHER -> x.s

\* x || fallback, then ToString
OrElse(x, fallback) == IF Truthy(x) THEN ToText(x) ELSE fallback

\* String.prototype.includes for a needle that is one token
Includes(toks, needle) == \E i \in 1..Len(toks) : toks[i] = needle

RECURSIVE Join(_, _)
\* Array.prototype.join
Join(items, sep) ==
    IF items = <<>> THEN <<>>
    ELSE IF Len(items) = 1 THEN <<items[1]>>
    ELSE <<items[1], sep>> \o Join(Tail(items), sep)

-----------------------------------------------------------------------------
(* Field values and validateInput                                          *)

IsSpace(c) == c = " "

RECURSIVE TrimStart(_)
TrimStart(v) == IF v # <<>> /\ IsSpace(v[1]) THEN TrimStart(Tail(v)) ELSE v

RECURSIVE TrimEnd(_)
TrimEnd(v) ==
    IF v # <<>> /\ IsSpace(v[Len(v)]) THEN TrimEnd(SubSeq(v, 1, Len(v) - 1)) ELSE v

\* String.prototype.trim
Trim(v) == TrimEnd(TrimStart(v))

\* /[<>"\'{}]/
SuspiciousChars == {"<", ">", "\"", "'", "{", "}"}

\* suspiciousPattern.test(input)
Suspicious(v) == \E i \in 1..Len(v) : v[i] \in SuspiciousChars

MsgBusy == <<"Ein Verarbeitungsvorgang laeuft bereits. Bitte warten...">>
MsgMissing == <<"Bitte geben Sie einen Firmennamen ein.">>
MsgTooShort == <<"Firmennamen muessen mindestens 3 Zeichen lang sein.">>
MsgTooLong == <<"Firmennamen duerfen maximal 200 Zeichen lang sein.">>
MsgForbidden == <<"Firmennamen duerfen keine Sonderzeichen wie <, >, \", ', { oder } enthalten.">>
MsgNoFile == <<"Keine Datei zum Download verfuegbar">>
MsgTimeout == <<"Die Verarbeitung dauerte zu lange und wurde abgebrochen. Bitte versuchen Sie es erneut.">>
MsgConnection == <<"Verbindungsfehler. Bitte ueberpruefen Sie Ihre Internetverbindung und versuchen Sie es erneut.">>
MsgUnknown == <<"Unbekannter Fehler aufgetreten">>
MsgUnexpected == <<"Ein unerwarteter Fehler ist aufgetreten">>
MsgStarted == <<"Suche nach Unternehmen wird gestartet...">>
MsgCompleted == <<"Verarbeitung erfolgreich abgeschlossen!">>
MsgFailed == <<"Verarbeitung fehlgeschlagen">>
Unbekannt == <<"Unbekannt">>

\* validateInput without the check of the maximal length
ValidationError_NoMax(value) ==
    LET input == Trim(value) IN
    IF input = <<>> THEN MsgMissing
    ELSE IF Len(input) < MinLen THEN MsgTooShort
    ELSE IF Suspicious(input) THEN MsgForbidden
    ELSE <<>>

\* validateInput without the check of the minimal length
ValidationError_NoMin(value) ==
    LET input == Trim(value) IN
    IF input = <<>> THEN MsgMissing
    ELSE IF Len(input) > MaxLen THEN MsgTooLong
    ELSE IF Suspicious(input) THEN MsgForbidden
    ELSE <<>>

\* validateInput without the test of the suspicious pattern
ValidationError_NoPattern(value) ==
    LET input == Trim(value) IN
    IF input = <<>> THEN MsgMissing
    ELSE IF Len(input) < MinLen THEN MsgTooShort
    ELSE IF Len(input) > MaxLen THEN MsgTooLong
    ELSE <<>>

\* validateInput: <<>> when the value is valid, else the message it shows
ValidationError(value) ==
    LET input == Trim(value) IN
    IF input = <<>> THEN MsgMissing
    ELSE IF Len(input) < MinLen THEN MsgTooShort
    ELSE IF Len(input) > MaxLen THEN MsgTooLong
    ELSE IF Suspicious(input) THEN MsgForbidden
    ELSE <<>>

\* validateInput returns true
InputValid(value) == ValidationError(value) = <<>>

-----------------------------------------------------------------------------
(* Server payloads                                                         *)

\* the decoded body of a response: kind is "invalid" when the body is not
\* JSON (response.json() rejects), "null" for the JSON text null
NoInfo ==
    [present |-> FALSE, organization |-> Undef, reference_number |-> Undef,
     location |-> Undef, important_dates |-> Undef, persons |-> Undef]

NoStats ==
    [present |-> FALSE, total_time |-> Undef, quality_score |-> Undef,
     word_count |-> Undef, extraction_method |-> Undef]

EmptyObject ==
    [kind |-> "object", success |-> Undef, error |-> Undef, filename |-> Undef,
     company_name |-> Undef, file_size |-> Undef, summary |-> Undef,
     extracted_info |-> NoInfo, processing_stats |-> NoStats]

InvalidBody == [EmptyObject EXCEPT !.kind = "invalid"]
NullBody == [EmptyObject EXCEPT !.kind = "null"]

\* {error: text}
ErrorObject(text) == [EmptyObject EXCEPT !.error = text]

\* {success: false, error: text}
FailureObject(text) == [EmptyObject EXCEPT !.success = Bool(FALSE), !.error = text]

FullInfo ==
    [present |-> TRUE, organization |-> Str(<<"Amtsgericht Muenchen">>),
     reference_number |-> Str(<<"HRB 123">>), location |-> Str(<<"Muenchen">>),
     important_dates |-> Arr(<<"2024-01-01", "2024-02-02">>),
     persons |-> Arr(<<"A. Muster">>)]

FullStats ==
    [present |-> TRUE, total_time |-> Num(12), quality_score |-> Num(75),
     word_count |-> Num(340), extraction_method |-> Str(<<"pdfplumber">>)]

\* a complete success payload
FullResult(name, text) ==
    [kind |-> "object", success |-> Bool(TRUE), error |-> Undef,
     filename |-> Str(<<name>>), company_name |-> Str(<<"Acme Corp">>),
     file_size |-> Str(<<"12KB">>), summary |-> Str(text),
     extracted_info |-> FullInfo, processing_stats |-> FullStats]

-----------------------------------------------------------------------------
(* Result renderer                                                         *)

NoError == [name |-> "", message |-> <<>>]
TypeError(text) == [name |-> "TypeError", message |-> <<text>>]

RECURSIVE ReplaceNewlines(_)
\* .replace(/\n\n/g, '</p><p>').replace(/\n/g, '<br>')
ReplaceNewlines(toks) ==
    IF toks = <<>> THEN <<>>
    ELSE IF Len(toks) >= 2 /\ toks[1] = "\n" /\ toks[2] = "\n"
         THEN <<"</p><p>">> \o ReplaceNewlines(SubSeq(toks, 3, Len(toks)))
    ELSE IF toks[1] = "\n" THEN <<"<br>">> \o ReplaceNewlines(Tail(toks))
    ELSE <<toks[1]>> \o ReplaceNewlines(Tail(toks))

\* `<p>${formattedSummary}</p>`
FormatSummary(toks) == <<"<p>">> \o ReplaceNewlines(toks) \o <<"</p>">>

populateCompanyInfo(result, v) ==
    [v EXCEPT !.companyName_result = OrElse(result.company_name, Unbekannt),
              !.fileSize = OrElse(result.file_size, Unbekannt),
              !.fileName = OrElse(result.filename, Unbekannt),
              !.downloadShown = IF Truthy(result.filename) THEN TRUE ELSE @]

\* one <li> of the extracted-info list, when the field is truthy
InfoItem(label, x) ==
    IF Truthy(x)
    THEN <<"<li><strong>", label, ":</strong> ">>
         \o (IF x.t = "array" THEN Join(x.s, ", ") ELSE ToText(x)) \o <<"</li>">>
    ELSE <<>>

\* x.join(', ') of a truthy value that is no array throws
JoinThrows(x) == Truthy(x) /\ x.t # "array"

\* [view, error]: error is NoError unless the function threw
populateExtractedInfo(extractedInfo, v) ==
    IF JoinThrows(extractedInfo.important_dates)
    THEN [view |-> v,
          error |-> TypeError("extractedInfo.important_dates.join is not a function")]
    ELSE IF JoinThrows(extractedInfo.persons)
    THEN [view |-> v,
          error |-> TypeError("extractedInfo.persons.join is not a function")]
    ELSE [view |-> [v EXCEPT !.extractedInfo =
                       <<"<h3>Extrahierte Informationen</h3><ul>">>
                       \o InfoItem("Organisation", extractedInfo.organization)
                       \o InfoItem("Referenznummer", extractedInfo.reference_number)
                       \o InfoItem("Ort", extractedInfo.location)
                       \o InfoItem("Wichtige Daten", extractedInfo.important_dates)
                       \o InfoItem("Personen", extractedInfo.persons)
                       \o <<"</ul>">>],
          error |-> NoError]

populateSummary(result, v) ==
    IF Truthy(result.summary) /\ result.summary.t # "string"
    THEN [view |-> v, error |-> TypeError("result.summary.replace is not a function")]
    ELSE LET v1 == IF Truthy(result.summary)
                   THEN [v EXCEPT !.summaryContent = FormatSummary(result.summary.s)]
                   ELSE v
         IN  IF result.extracted_info.present
             THEN populateExtractedInfo(result.extracted_info, v1)
             ELSE [view |-> v1, error |-> NoError]

\* the tiers with the limits left out of the upper tier
QualityClass_Strict(score) ==
    IF score > 80 THEN "high-quality"
    ELSE IF score > 60 THEN "medium-quality"
    ELSE "low-quality"

\* the display tier of a quality score
QualityClass(score) ==
    IF score >= 80 THEN "high-quality"
    ELSE IF score >= 60 THEN "medium-quality"
    ELSE "low-quality"

populateStatistics(result, v) ==
    LET stats == IF result.processing_stats.present THEN result.processing_stats
                 ELSE NoStats
        score == IF Truthy(stats.quality_score) THEN stats.quality_score ELSE Num(0)
    IN  [v EXCEPT !.processingTime = OrElse(stats.total_time, <<"0">>) \o <<" Sekunden">>,
                  !.qualityScore = ToText(score) \o <<"%">>,
                  !.qualityClass = QualityClass(score.n),
                  !.wordCount = OrElse(stats.word_count, <<"0">>) \o <<" Woerter">>,
                  !.extractionMethod = OrElse(stats.extraction_method, Unbekannt)]

\* the markup before any result has been rendered
InitialView ==
    [companyName_result |-> <<>>, fileSize |-> <<>>, fileName |-> <<>>,
     downloadShown |-> FALSE, summaryContent |-> <<>>, extractedInfo |-> <<>>,
     processingTime |-> <<>>, qualityScore |-> <<>>, qualityClass |-> "",
     wordCount |-> <<>>, extractionMethod |-> <<>>]

-----------------------------------------------------------------------------
(* The controller's state as one record, so that a handler is the          *)
(* composition of the functions it calls, in the order it calls them       *)

Cur ==
    [isProcessing |-> isProcessing, latestFilename |-> latestFilename,
     fieldValue |-> fieldValue, inputError |-> inputError,
     submitDisabled |-> submitDisabled, btnLoading |-> btnLoading,
     errorText |-> errorText, errorShown |-> errorShown,
     resultsVisible |-> resultsVisible, statusVisible |-> statusVisible,
     statusEntry |-> statusEntry, view |-> view, location |-> location,
     calls |-> calls, timers |-> timers, lastOutcome |-> lastOutcome,
     writer |-> writer, rendered |-> rendered]

Becomes(s) ==
    /\ isProcessing' = s.isProcessing
    /\ latestFilename' = s.latestFilename
    /\ fieldValue' = s.fieldValue
    /\ inputError' = s.inputError
    /\ submitDisabled' = s.submitDisabled
    /\ btnLoading' = s.btnLoading
    /\ errorText' = s.errorText
    /\ errorShown' = s.errorShown
    /\ resultsVisible' = s.resultsVisible
    /\ statusVisible' = s.statusVisible
    /\ statusEntry' = s.statusEntry
    /\ view' = s.view
    /\ location' = s.location
    /\ calls' = s.calls
    /\ timers' = s.timers
    /\ lastOutcome' = s.lastOutcome
    /\ writer' = s.writer
    /\ rendered' = s.rendered

\* timers of the same kind, owner and remaining time are one entry: their
\* callbacks are idempotent (clearError, abort)
HideTimer == [kind |-> "hide", ctl |-> 0, left |-> ErrorHideDelay]
AbortTimer(i) == [kind |-> "abort", ctl |-> i, left |-> Deadline]

\* how a handling ended: kind, and what the server sent with it
Outcome(kind, status, error, filename) ==
    [kind |-> kind, status |-> status, error |-> error, filename |-> filename]

-----------------------------------------------------------------------------
(* DOM helpers                                                             *)

showError(s, message) ==
    [s EXCEPT !.errorText = message, !.errorShown = TRUE,
              !.timers = @ \cup {HideTimer}]

clearError(s) == [s EXCEPT !.errorText = <<>>, !.errorShown = FALSE]

\* clearResults that hides the status section only
clearResults_KeepResults(s) ==
    [s EXCEPT !.statusVisible = FALSE,
              !.writer = [k \in DOMAIN @ |-> IF @[k] = "current" THEN "earlier" ELSE @[k]]]

\* the content of the regions stays; a block written before now counts as
\* written by an earlier submission
clearResults(s) ==
    [s EXCEPT !.resultsVisible = FALSE, !.statusVisible = FALSE,
              !.writer = [k \in DOMAIN @ |-> IF @[k] = "current" THEN "earlier" ELSE @[k]]]

setButtonLoading(s, isLoading) ==
    [s EXCEPT !.submitDisabled = isLoading, !.btnLoading = isLoading]

showStatusSection(s, message) ==
    [s EXCEPT !.statusEntry = [tag |-> "processing", msg |-> message],
              !.statusVisible = TRUE]

updateStatusSection(s, message, success) ==
    [s EXCEPT !.statusEntry = [tag |-> IF success THEN "completed" ELSE "failed",
                               msg |-> message]]

showResultsSection(s) == [s EXCEPT !.resultsVisible = TRUE]

validateInput(s) ==
    IF InputValid(s.fieldValue) THEN s
    ELSE showError(s, ValidationError(s.fieldValue))

-----------------------------------------------------------------------------
(* The submit handler                                                      *)

\* lines 12-43: up to the suspension at `await fetch`
issueRequest(s) ==
    LET id == Len(s.calls) + 1
        companyName == Trim(s.fieldValue)
        s1 == [s EXCEPT !.isProcessing = TRUE]
        s2 == showStatusSection(setButtonLoading(s1, TRUE), MsgStarted)
    IN  [s2 EXCEPT !.timers = @ \cup {AbortTimer(id)},
                   !.calls = Append(@, [company |-> companyName, stage |-> "fetch",
                                        status |-> 0, elapsed |-> 0]),
                   !.lastOutcome = Outcome("processing", 0, Undef, Undef)]

\* the submit handler without the isProcessing gate of lines 15-18
onSubmit_NoGate(s) ==
    LET s1 == clearResults(clearError(s))
    IN  IF ~InputValid(s1.fieldValue)
        THEN [validateInput(s1) EXCEPT
                 !.lastOutcome = Outcome("invalid", 0, Undef, Undef)]
        ELSE issueRequest(s1)

onSubmit(s) ==
    IF s.isProcessing
    THEN showError(s, MsgBusy)
    ELSE LET s1 == clearResults(clearError(s))
         IN  IF ~InputValid(s1.fieldValue)
             THEN [validateInput(s1) EXCEPT
                      !.lastOutcome = Outcome("invalid", 0, Undef, Undef)]
             ELSE issueRequest(s1)

\* the message the catch block shows for an error
CatchMessage(error) ==
    IF error.name = "AbortError" THEN MsgTimeout
    ELSE IF Includes(error.message, "Failed to fetch") THEN MsgConnection
    ELSE IF error.message # <<>> THEN error.message
    ELSE MsgUnexpected

\* the catch block without its update of the status indicator (line 78)
catchBlock_NoStatus(s, error) == showError(s, CatchMessage(error))

catchBlock(s, error) ==
    updateStatusSection(showError(s, CatchMessage(error)), MsgFailed, FALSE)

finallyBlock(s) == setButtonLoading([s EXCEPT !.isProcessing = FALSE], FALSE)

\* the invocation i has run to its end: its closure is gone
Ended(s, i, outcome) ==
    [s EXCEPT !.calls[i] = [company |-> <<>>, stage |-> "done", status |-> 0,
                            elapsed |-> 0],
              !.lastOutcome = outcome]

\* the catch block without the finally block after it
Fails_NoCleanup(s, i, error, outcome) == Ended(catchBlock(s, error), i, outcome)

\* an error reaches the catch block of invocation i
Fails(s, i, error, outcome) == Ended(finallyBlock(catchBlock(s, error)), i, outcome)

\* clearTimeout(timeoutId)
clearTimeout(s, i) ==
    [s EXCEPT !.timers = {t \in @ : ~(t.kind = "abort" /\ t.ctl = i)}]

\* line 45-48 / 52: fetch resolved; the handler suspends again at response.json()
onResponse(s, i, response) ==
    [clearTimeout(s, i) EXCEPT
        !.calls[i] = [@ EXCEPT !.stage = IF response.ok THEN "okBody" ELSE "errBody",
                               !.status = response.status]]

\* fetch rejected with a TypeError (network unreachable); line 45 is skipped
onFetchError(s, i, text) ==
    Fails(s, i, TypeError(text), Outcome("transport", 0, Undef, Undef))

\* lines 48-49: the body of a response that is not ok
onErrorBody(s, i, body) ==
    LET status == s.calls[i].status
        errorData == IF body.kind = "invalid" THEN EmptyObject ELSE body
        error ==
            IF errorData.kind = "null"
            THEN TypeError("Cannot read properties of null (reading 'error')")
            ELSE [name |-> "Error",
                  message |-> OrElse(errorData.error, <<"HTTP Error: ">> \o NumToks(status))]
    IN  Fails(s, i, error, Outcome("application", status, errorData.error, Undef))

\* line 58 recording another field of the result
recordFilename_Company(s, result) == [s EXCEPT !.latestFilename = result.company_name]

\* line 58: latestFilename = result.filename
recordFilename(s, result) == [s EXCEPT !.latestFilename = result.filename]

\* lines 58-65: the success path
renderResult(s, i, result) ==
    LET s1 == recordFilename(s, result)
        s2 == updateStatusSection(s1, MsgCompleted, TRUE)
        v1 == populateCompanyInfo(result, s2.view)
        r == populateSummary(result, v1)
        w == [summary |-> IF Truthy(result.summary) /\ result.summary.t = "string"
                          THEN "current" ELSE s.writer.summary,
              extracted |-> IF result.extracted_info.present /\ r.error = NoError
                            THEN "current" ELSE s.writer.extracted]
        s3 == [s2 EXCEPT !.view = r.view, !.writer = w]
    IN  IF r.error # NoError
        THEN Fails(s3, i, r.error, Outcome("exception", 200, Undef, result.filename))
        ELSE Ended(finallyBlock(showResultsSection(
                     [s3 EXCEPT !.view = populateStatistics(result, @),
                                !.rendered = result])),
                   i, Outcome("success", 200, Undef, result.filename))

\* lines 52-65: the body of a response that is ok
onResultBody(s, i, result) ==
    IF result.kind = "invalid"
    THEN Fails(s, i, [name |-> "SyntaxError",
                      message |-> <<"Unexpected token < in JSON at position 0">>],
               Outcome("exception", 200, Undef, Undef))
    ELSE IF result.kind = "null"
    THEN Fails(s, i, TypeError("Cannot read properties of null (reading 'success')"),
               Outcome("exception", 200, Undef, Undef))
    ELSE IF ~Truthy(result.success)
    THEN Fails(s, i, [name |-> "Error", message |-> OrElse(result.error, MsgUnknown)],
               Outcome("application", 200, result.error, Undef))
    ELSE renderResult(s, i, result)

\* abort() whose rejection runs catch and finally but leaves the invocation
\* waiting for the response
onAbort_StillWaiting(s, i) ==
    IF s.calls[i].stage = "done" THEN s
    ELSE [finallyBlock(catchBlock(s, [name |-> "AbortError",
                                      message |-> <<"The user aborted a request.">>]))
            EXCEPT !.lastOutcome = Outcome("timeout", 0, Undef, Undef)]

\* abort() on one controller shared by all invocations: it cancels whichever
\* request is outstanding
onAbort_Shared(s, i) ==
    LET abortError == [name |-> "AbortError", message |-> <<"The user aborted a request.">>]
        live == {j \in 1..Len(s.calls) : s.calls[j].stage # "done"}
    IN  IF live = {} THEN s
        ELSE Fails(s, CHOOSE j \in live : TRUE, abortError,
                   Outcome("timeout", 0, Undef, Undef))

\* controller.abort() of invocation i: the pending fetch, or the pending body
\* read, rejects with an AbortError; a finished request is not affected
onAbort(s, i) ==
    LET abortError == [name |-> "AbortError", message |-> <<"The user aborted a request.">>]
        stage == s.calls[i].stage
    IN  IF stage = "fetch" \/ stage = "okBody"
        THEN Fails(s, i, abortError, Outcome("timeout", 0, Undef, Undef))
        ELSE IF stage = "errBody"
        THEN onErrorBody(s, i, InvalidBody)
        ELSE s

-----------------------------------------------------------------------------
(* The other handlers                                                      *)

\* the click handler without the check of lines 88-91
onDownloadClick_NoGuard(s) ==
    [s EXCEPT !.location = <<"/download/">> \o ToText(s.latestFilename)]

\* downloadBtn click
onDownloadClick(s) ==
    IF ~Truthy(s.latestFilename)
    THEN showError(s, MsgNoFile)
    ELSE [s EXCEPT !.location = <<"/download/">> \o ToText(s.latestFilename)]

\* companyInput input: the field now holds newValue
onInput(s, newValue) ==
    LET value == Trim(newValue)
        s1 == [s EXCEPT !.fieldValue = newValue]
    IN  IF Len(value) >= MinLen
        THEN [s1 EXCEPT !.submitDisabled = FALSE, !.inputError = FALSE]
        ELSE [s1 EXCEPT !.submitDisabled = TRUE,
                        !.inputError = IF Len(value) > 0 THEN TRUE ELSE @]

\* keydown Ctrl+Enter: dispatches submit unless a request is being processed
onCtrlEnter(s) == IF ~s.isProcessing THEN onSubmit(s) ELSE s

\* keydown Escape
onEscape(s) == clearError(s)

-----------------------------------------------------------------------------
(* The environment: what the user types and what the network delivers      *)

\* n copies of the character c
Rep(c, n) == [i \in 1..n |-> c]

Inputs ==
    {<<>>, <<"A", "B">>, <<" ", "A", "c", "m", "e", " ">>, <<"A", "<", "b", ">">>}

\* field values around every limit of validateInput
WideInputs ==
    {<<>>, <<" ", " ">>, <<"A", "B">>, <<" ", "A", "B", " ">>, <<"A", "B", "C">>,
     <<" ", "A", "c", "m", "e", " ">>, <<"A", "<", "b", ">">>, <<"{", "}">>,
     <<"O", "'", "N", "e", "i", "l">>, <<"a", "\"", "b">>,
     Rep("a", MaxLen), Rep("a", MaxLen + 1), <<" ">> \o Rep("a", MaxLen) \o <<" ">>,
     Rep("a", MaxLen) \o <<"<">>}

Responses == {[ok |-> TRUE, status |-> 200], [ok |-> FALSE, status |-> 500]}

\* the message of the TypeError a failed fetch rejects with differs by browser
TransportMessages ==
    {"Failed to fetch", "NetworkError when attempting to fetch resource."}

ErrorBodies ==
    {InvalidBody, NullBody, EmptyObject, ErrorObject(Str(<<"db down">>)),
     ErrorObject(Str(<<"Failed to fetch", " the company register">>))}

Result1 == FullResult("r1.pdf", <<"Line1", "\n", "\n", "Line2">>)
Result2 == FullResult("r2.pdf", <<"Other", "\n", "text">>)

ResultBodies ==
    {InvalidBody, NullBody, FailureObject(Undef), FailureObject(Str(<<"no document found">>)),
     Result1, Result2,
     [Result2 EXCEPT !.summary = Undef, !.extracted_info = NoInfo],
     [Result2 EXCEPT !.summary = Num(42)],
     [Result2 EXCEPT !.extracted_info.important_dates = Str(<<"2024-01-01">>)],
     [Result1 EXCEPT !.filename = Undef]}

\* the object rec with the fields of absent left out
Without(rec, absent) == [k \in DOMAIN rec |-> IF k \in absent THEN Undef ELSE rec[k]]

TopFields == {"company_name", "file_size", "summary"}
InfoFields == {"organization", "reference_number", "location", "important_dates", "persons"}
StatsFields == {"total_time", "quality_score", "word_count", "extraction_method"}

\* a success result with every subset of its optional fields left out
RenderInputs ==
    {[Without(Result1, a) EXCEPT !.extracted_info = e, !.processing_stats = p] :
        a \in SUBSET TopFields,
        e \in {NoInfo} \cup {Without(FullInfo, x) : x \in SUBSET InfoFields},
        p \in {NoStats} \cup {Without(FullStats, x) : x \in SUBSET StatsFields}}

\* a complete success result with every quality score, and with none
ScoreInputs ==
    {[Result1 EXCEPT !.processing_stats.quality_score = Num(k)] :
        k \in (0 - MaxBelow)..MaxScore}
    \cup {[Result1 EXCEPT !.processing_stats.quality_score = Undef],
          [Result1 EXCEPT !.processing_stats = NoStats]}

\* the instants the model observes are the multiples of Quantum
Quantum == Deadline \div 2

\* the finer grain at which the error banner is observed
BannerQuantum == ErrorHideDelay \div 2

-----------------------------------------------------------------------------
(* Init and the actions                                                    *)

\* the page after DOMContentLoaded, the field holding one of values; the
\* regions start hidden and empty
InitWith(values) ==
    /\ isProcessing = FALSE
    /\ latestFilename = Str(<<>>)
    /\ fieldValue \in values
    /\ inputError = FALSE
    /\ submitDisabled = (Len(Trim(fieldValue)) < MinLen)
    /\ btnLoading = FALSE
    /\ errorText = <<>>
    /\ errorShown = FALSE
    /\ resultsVisible = FALSE
    /\ statusVisible = FALSE
    /\ statusEntry = [tag |-> "", msg |-> <<>>]
    /\ view = InitialView
    /\ location = <<>>
    /\ calls = <<>>
    /\ timers = {}
    /\ lastOutcome = Outcome("none", 0, Undef, Undef)
    /\ writer = [summary |-> "initial", extracted |-> "initial"]
    /\ rendered = EmptyObject

Init == InitWith(Inputs)

\* a submission that would issue a request needs room for it in the model
CanSubmit == isProcessing \/ ~InputValid(fieldValue) \/ Len(calls) < MaxSubs

\* the form's submit event
Submit == CanSubmit /\ Becomes(onSubmit(Cur))

\* keydown with ctrlKey and key 'Enter'
CtrlEnter == ~isProcessing /\ CanSubmit /\ Becomes(onCtrlEnter(Cur))

\* keydown with key 'Escape'
Escape == Becomes(onEscape(Cur))

DownloadClick == Becomes(onDownloadClick(Cur))

FieldInput(values) == \E v \in values : Becomes(onInput(Cur, v))

FetchResolve(responses) ==
    \E i \in 1..Len(calls), r \in responses :
        calls[i].stage = "fetch" /\ Becomes(onResponse(Cur, i, r))

FetchReject(messages) ==
    \E i \in 1..Len(calls), m \in messages :
        calls[i].stage = "fetch" /\ Becomes(onFetchError(Cur, i, m))

ErrorBodyRead(bodies) ==
    \E i \in 1..Len(calls), b \in bodies :
        calls[i].stage = "errBody" /\ Becomes(onErrorBody(Cur, i, b))

ResultBodyRead(bodies) ==
    \E i \in 1..Len(calls), b \in bodies :
        calls[i].stage = "okBody" /\ Becomes(onResultBody(Cur, i, b))

\* the deadline timer of an invocation fires
AbortTimerFire ==
    \E t \in timers :
        /\ t.kind = "abort" /\ t.left = 0
        /\ Becomes(onAbort([Cur EXCEPT !.timers = @ \ {t}], t.ctl))

\* the timer set by showError fires
HideTimerFire ==
    \E t \in timers :
        /\ t.kind = "hide" /\ t.left = 0
        /\ Becomes(clearError([Cur EXCEPT !.timers = @ \ {t}]))

Min(a, b) == IF a < b THEN a ELSE b
Max(a, b) == IF a > b THEN a ELSE b

\* the requests whose handling has not ended
Outstanding == {i \in 1..Len(calls) : calls[i].stage # "done"}

\* q milliseconds pass.  A timer that is due fires before time passes on;
\* a timer that comes due within q fires at its end.  The time a request
\* has been outstanding is counted up to q past the deadline.
TickBy(q) ==
    /\ \A t \in timers : t.left > 0
    /\ timers # {} \/ \E i \in Outstanding : calls[i].elapsed <= Deadline
    /\ timers' = {[t EXCEPT !.left = Max(0, @ - q)] : t \in timers}
    /\ calls' = [i \in 1..Len(calls) |->
                   IF calls[i].stage = "done" THEN calls[i]
                   ELSE [calls[i] EXCEPT !.elapsed = Min(Deadline + q, @ + q)]]
    /\ UNCHANGED <<isProcessing, latestFilename, fieldValue, inputError,
                   submitDisabled, btnLoading, errorText, errorShown,
                   resultsVisible, statusVisible, statusEntry, view, location,
                   lastOutcome, writer, rendered>>

Tick == TickBy(Quantum)

Next ==
    \/ Submit
    \/ CtrlEnter
    \/ Escape
    \/ DownloadClick
    \/ FieldInput(Inputs)
    \/ FetchResolve(Responses)
    \/ FetchReject(TransportMessages)
    \/ ErrorBodyRead(ErrorBodies)
    \/ ResultBodyRead(ResultBodies)
    \/ AbortTimerFire
    \/ HideTimerFire
    \/ Tick

Spec == Init /\ [][Next]_vars

\* The same controller with every kind of field value and one payload of
\* each kind from the network
InitInput == InitWith(WideInputs)

NextInput ==
    \/ Submit
    \/ CtrlEnter
    \/ Escape
    \/ FieldInput(WideInputs)
    \/ FetchResolve({[ok |-> FALSE, status |-> 500]})
    \/ FetchReject({"Failed to fetch"})
    \/ ErrorBodyRead({EmptyObject})
    \/ AbortTimerFire
    \/ HideTimerFire
    \/ Tick

SpecInput == InitInput /\ [][NextInput]_vars

\* The success path fed with every shape of a success result: the
\* submissions before the last one get a complete result or no answer, the
\* last one gets any of RenderInputs
InitRender == InitWith({<<" ", "A", "c", "m", "e", " ">>})

NextRender ==
    \/ Submit
    \/ FetchResolve({[ok |-> TRUE, status |-> 200]})
    \/ FetchReject({"Failed to fetch"})
    \/ ResultBodyRead(IF Len(calls) < MaxSubs THEN {Result2} ELSE RenderInputs)

SpecRender == InitRender /\ [][NextRender]_vars

\* The page observed every BannerQuantum, with the events that show and
\* clear the error banner
NextBanner ==
    \/ Submit
    \/ CtrlEnter
    \/ Escape
    \/ DownloadClick
    \/ FieldInput({<<"A", "B">>, <<" ", "A", "c", "m", "e", " ">>})
    \/ FetchReject({"Failed to fetch"})
    \/ AbortTimerFire
    \/ HideTimerFire
    \/ TickBy(BannerQuantum)

SpecBanner == Init /\ [][NextBanner]_vars

\* The success path fed with every quality score
NextScore ==
    \/ Submit
    \/ FetchResolve({[ok |-> TRUE, status |-> 200]})
    \/ FetchReject({"Failed to fetch"})
    \/ ResultBodyRead(IF Len(calls) < MaxSubs THEN {Result2} ELSE ScoreInputs)

SpecScore == InitRender /\ [][NextScore]_vars

-----------------------------------------------------------------------------
(* Properties                                                              *)

\* C1: at most one request is outstanding at a time; a submit event while
\* isProcessing is true issues no request, leaves isProcessing and
\* latestFilename unchanged and shows the 'already running' message; a
\* request is issued only when the handling of every earlier submission,
\* cleanup included, has ended.
C1_SingleRequest ==
    [][/\ Cardinality(Outstanding') <= 1
       /\ Outstanding' # {} => isProcessing'
       /\ (isProcessing /\ Submit) =>
             /\ calls' = calls
             /\ isProcessing'
             /\ latestFilename' = latestFilename
             /\ errorShown' /\ errorText' = MsgBusy
       /\ Len(calls') > Len(calls) => ~isProcessing /\ Outstanding = {}]_vars

\* a second submission is being processed and a submit event was rejected
C1_Witness ==
    /\ isProcessing /\ errorShown /\ errorText = MsgBusy
    /\ Len(calls) = 2 /\ Cardinality(Outstanding) = 1

\* the ways the handling of a submission that issued a request ends
EndKinds == {"success", "application", "transport", "timeout", "exception"}

\* C2: whatever way the handling of a submission that issued a request
\* ends, isProcessing is false and the submit control is enabled when it
\* has ended.
C2_CleanupOnEveryExit ==
    [][\A i \in 1..Len(calls) :
          (calls[i].stage # "done" /\ calls'[i].stage = "done") =>
             /\ lastOutcome'.kind \in EndKinds
             /\ ~isProcessing'
             /\ ~submitDisabled' /\ ~btnLoading']_vars

\* a handling ended by an exception raised while rendering, cleaned up
C2_Witness ==
    /\ lastOutcome.kind = "exception" /\ Truthy(lastOutcome.filename)
    /\ Outstanding = {} /\ ~isProcessing /\ ~submitDisabled /\ ~btnLoading

\* C3: no request stays outstanding for more than 300 seconds, at whatever
\* stage it is: at the deadline it is cancelled and isProcessing becomes
\* false.
C3_DeadlineAtEveryStage ==
    \A i \in Outstanding : calls[i].elapsed <= 300000

\* C4: a response delivered with a non-success HTTP status or with
\* success:false shows the server-supplied error text whenever one is
\* present, and otherwise a fallback; never the timeout or the connectivity
\* message; the status is marked failed and the results region is hidden.
C4_ApplicationFailureMessage ==
    [][(lastOutcome.kind = "processing" /\ lastOutcome'.kind = "application") =>
          /\ errorShown' /\ errorText' # <<>>
          /\ Truthy(lastOutcome'.error) => errorText' = ToText(lastOutcome'.error)
          /\ errorText' \notin {MsgTimeout, MsgConnection}
          /\ statusEntry'.tag = "failed"
          /\ ~resultsVisible']_vars

\* C5: a request is issued only by a submission, only when the trimmed
\* field value has 3 to 200 characters and none of < > " ' { }; a valid
\* submission that is not rejected issues exactly one request, whose payload
\* is the trimmed value; a request that has ended is never issued again.
C5_RequestOnlyForValidInput ==
    [][LET v == Trim(fieldValue)
           ok == /\ Len(v) >= 3 /\ Len(v) <= 200
                 /\ \A k \in 1..Len(v) : v[k] \notin {"<", ">", "\"", "'", "{", "}"}
           n == Len(calls')
       IN  /\ Len(calls') > Len(calls) =>
                /\ n = Len(calls) + 1
                /\ ok
                /\ Submit \/ CtrlEnter
                /\ calls'[n] = [company |-> v, stage |-> "fetch", status |-> 0,
                                elapsed |-> 0]
                /\ SubSeq(calls', 1, Len(calls)) = calls
           /\ (Submit /\ ~isProcessing /\ ok) => n = Len(calls) + 1
           /\ (Submit /\ ~ok) => calls' = calls
           /\ \A i \in 1..Len(calls) :
                calls[i].stage = "done" => calls'[i].stage = "done"]_vars

\* a request carries the 200 characters left of a field value of 202
C5_Witness ==
    \E i \in Outstanding :
        /\ calls[i].stage = "fetch" /\ Len(calls[i].company) = 200
        /\ Len(fieldValue) = 202 /\ calls[i].company = Trim(fieldValue)

\* C6 as stated: after a success, a download click navigates to the
\* download path of the response's filename.
C6_DownloadAfterAnySuccess ==
    [][(lastOutcome.kind = "success" /\ DownloadClick) =>
          location' = <<"/download/">> \o ToText(lastOutcome.filename)]_vars

\* C6 amended: after a success latestFilename equals the response's filename
\* field exactly; a download click then navigates to the download path of
\* that filename when the filename is non-empty, and otherwise shows the
\* 'no file' error and does not navigate.
C6_FilenameRecorded ==
    /\ [](lastOutcome.kind = "success" => latestFilename = lastOutcome.filename)
    /\ [][(lastOutcome.kind = "success" /\ DownloadClick) =>
             IF Truthy(lastOutcome.filename)
             THEN location' = <<"/download/">> \o ToText(lastOutcome.filename)
             ELSE location' = location /\ errorText' = MsgNoFile]_vars

\* the download of the file of the second, successful submission
C6_Witness ==
    /\ lastOutcome.kind = "success" /\ lastOutcome.filename = Str(<<"r2.pdf">>)
    /\ latestFilename = Str(<<"r2.pdf">>)
    /\ location = <<"/download/", "r2.pdf">>

\* C7: latestFilename changes only in a submission that ends as a success.
C7_FilenameOnlyOnSuccess ==
    [][latestFilename' # latestFilename => lastOutcome'.kind = "success"]_vars

\* C8: only a download click with a filename on record navigates; a click
\* with no filename on record shows an error and does not navigate; a click
\* changes neither isProcessing nor latestFilename, and issues no request.
C8_NavigationOnlyOnClick ==
    [][/\ location' # location => DownloadClick /\ Truthy(latestFilename)
       /\ DownloadClick =>
             /\ isProcessing' = isProcessing
             /\ latestFilename' = latestFilename
             /\ calls' = calls
       /\ (DownloadClick /\ ~Truthy(latestFilename)) =>
             /\ location' = location
             /\ errorShown' /\ errorText' = MsgNoFile]_vars

\* a click with no filename on record, while a request is outstanding
C8_Witness ==
    /\ errorShown /\ errorText = MsgNoFile /\ ~Truthy(latestFilename)
    /\ location = <<>> /\ isProcessing

\* C9: the results region is visible only if no request is outstanding and
\* the last submission that passed the isProcessing gate ended as a success,
\* with the identity and statistics regions written from that result.
C9_ResultsOnlyAfterFullRender ==
    resultsVisible =>
        /\ Outstanding = {} /\ ~isProcessing
        /\ lastOutcome.kind = "success"
        /\ statusEntry.tag = "completed"
        /\ view.fileName = OrElse(lastOutcome.filename, Unbekannt)
        /\ view.qualityScore # <<>> /\ view.extractionMethod # <<>>

\* the results of a second submission are shown
C9_Witness ==
    resultsVisible /\ Len(calls) = 2 /\ lastOutcome.kind = "success"

\* C10: whenever the results region is visible, neither the summary block
\* nor the extracted-info block shows content written by an earlier
\* submission.
C10_NoStaleContent ==
    resultsVisible => writer.summary # "earlier" /\ writer.extracted # "earlier"

\* a success body that was read ends the handling as a success, the results
\* region shown
C11_Rendered ==
    \A i \in 1..Len(calls) : calls[i].stage = "okBody" /\ calls'[i].stage = "done"
        => lastOutcome'.kind = "success" /\ resultsVisible'

\* the regions of the rendered result that have a fallback token show it
\* where the field is absent, and the field's text where it is there
C11_Fallbacks ==
    LET r == rendered
        st == r.processing_stats
    IN  /\ ~Truthy(r.company_name) => view.companyName_result = Unbekannt
        /\ ~Truthy(r.file_size) => view.fileSize = Unbekannt
        /\ ~Truthy(st.total_time) => view.processingTime = <<"0", " Sekunden">>
        /\ ~Truthy(st.quality_score) =>
               view.qualityScore = <<"0", "%">> /\ view.qualityClass = "low-quality"
        /\ ~Truthy(st.word_count) => view.wordCount = <<"0", " Woerter">>
        /\ ~Truthy(st.extraction_method) => view.extractionMethod = Unbekannt
        /\ Truthy(st.total_time) =>
               view.processingTime = ToText(st.total_time) \o <<" Sekunden">>
        /\ Truthy(r.summary) => view.summaryContent = FormatSummary(r.summary.s)

\* a block whose field is absent was still written by this rendering
C11_NoBlankRegion ==
    /\ ~Truthy(rendered.summary) => writer.summary = "current"
    /\ ~rendered.extracted_info.present => writer.extracted = "current"

\* C11: for every success result and every subset of absent optional fields
\* the rendering throws nothing and the submission ends as a success; every
\* region whose data is absent shows a fallback token ('Unbekannt', '0'; the
\* summary and the extracted-info block show something this rendering wrote,
\* neither the blank markup nor the text of an earlier result); the summary
\* is rendered whether or not extracted_info is there, the statistics
\* whether or not the others are.
C11_AbsentFieldsRendered ==
    [][/\ C11_Rendered
       /\ lastOutcome'.kind = "success" /\ lastOutcome.kind = "processing"
             => C11_Fallbacks' /\ C11_NoBlankRegion']_vars

\* the part of C11 that holds: no exception, success, and the fallback
\* tokens of the identity line and of the statistics
C11_NoException ==
    [][/\ C11_Rendered
       /\ lastOutcome'.kind = "success" /\ lastOutcome.kind = "processing"
             => C11_Fallbacks']_vars

\* the tier the statistics block is to show for a score
C16_Tier(score) ==
    IF score >= 80 THEN "high-quality"
    ELSE IF 60 <= score /\ score < 80 THEN "medium-quality"
    ELSE "low-quality"

\* the state with the score text and its display class left out
C16_Masked(s) ==
    [s EXCEPT !.view.qualityScore = <<>>, !.view.qualityClass = "",
              !.rendered.processing_stats = NoStats]

\* C16: for every quality_score the statistics block shows '<score>%' and
\* the tier high for score >= 80, medium for 60 <= score < 80, low
\* otherwise; an absent score shows as 0 and low; two results that differ
\* in the score only leave the same state but for the score text and the
\* display class.
C16_QualityTier ==
    [][\A i \in 1..Len(calls) :
          (calls[i].stage = "okBody" /\ lastOutcome'.kind = "success") =>
            LET q == rendered'.processing_stats.quality_score
                score == IF q.t = "number" THEN q.n ELSE 0
            IN  /\ view'.qualityScore = NumToks(score) \o <<"%">>
                /\ view'.qualityClass = C16_Tier(score)
                /\ \A k \in {0, 59, 60, 79, 80} :
                      C16_Masked(Cur')
                        = C16_Masked(onResultBody(Cur, i,
                            [rendered' EXCEPT !.processing_stats.quality_score = Num(k)]))
      ]_vars

C16_Witness ==
    /\ lastOutcome.kind = "success"
    /\ rendered.processing_stats.quality_score = Num(80)
    /\ view.qualityScore = <<"8", "0", "%">>
    /\ view.qualityClass = "high-quality"

\* a submit event or Ctrl+Enter while no request is being processed
C12_SubmitWhenIdle == ~isProcessing /\ (Submit \/ CtrlEnter)

\* the step shows message and issues no request
C12_RejectedWith(message) ==
    /\ errorShown' /\ errorText' = message
    /\ calls' = calls /\ Outstanding' = {}
    /\ ~isProcessing'

\* C12 as stated: every field value whose trimmed length is less than 3,
\* submitted while no request is outstanding, is rejected with the 'too
\* short' message, issues no request and leaves isProcessing false.
C12_TooShortMessage ==
    [][(C12_SubmitWhenIdle /\ Len(Trim(fieldValue)) < MinLen)
          => C12_RejectedWith(MsgTooShort)]_vars

\* C12 amended: a trimmed length of 1 or 2 is rejected with the 'too short'
\* message, an empty or blank value with the 'missing input' message; in
\* both cases no request is issued and isProcessing stays false.
C12_ShortOrMissing ==
    [][(C12_SubmitWhenIdle /\ Len(Trim(fieldValue)) < MinLen)
          => C12_RejectedWith(IF Trim(fieldValue) = <<>> THEN MsgMissing
                              ELSE MsgTooShort)]_vars

C12_Witness ==
    /\ Len(Trim(fieldValue)) \in 1..(MinLen - 1)
    /\ Len(fieldValue) > MinLen
    /\ lastOutcome.kind = "invalid"
    /\ errorShown /\ errorText = MsgTooShort
    /\ ~isProcessing /\ Outstanding = {}

\* C13 as stated: every field value containing one of < > " ' { },
\* submitted while no request is outstanding, is rejected with the
\* 'forbidden characters' message, issues no request and leaves
\* isProcessing false.
C13_ForbiddenMessage ==
    [][(C12_SubmitWhenIdle /\ Suspicious(fieldValue))
          => C12_RejectedWith(MsgForbidden)]_vars

\* C13 amended: such a value is always rejected without a request; the
\* message is the 'forbidden characters' one when the trimmed length is
\* 3 to 200, the 'too short' one below and the 'too long' one above.
C13_ForbiddenRejected ==
    [][(C12_SubmitWhenIdle /\ Suspicious(fieldValue))
          => C12_RejectedWith(
               IF Len(Trim(fieldValue)) < MinLen THEN MsgTooShort
               ELSE IF Len(Trim(fieldValue)) > MaxLen THEN MsgTooLong
               ELSE MsgForbidden)]_vars

C13_Witness ==
    /\ Suspicious(fieldValue)
    /\ Len(Trim(fieldValue)) \in MinLen..MaxLen
    /\ lastOutcome.kind = "invalid"
    /\ errorShown /\ errorText = MsgForbidden
    /\ ~isProcessing /\ Outstanding = {}

\* the time the hide timers still have to run, the latest first: the timer
\* set with the message on the banner is the one that has the longest to run
C14_OwnTimerLeft == IF \E t \in timers : t.kind = "hide"
                    THEN CHOOSE n \in {t.left : t \in {u \in timers : u.kind = "hide"}} :
                           \A t \in timers : t.kind = "hide" => t.left <= n
                    ELSE 0

\* C14: a message on the error banner stays until 10 seconds have passed
\* since it was shown, or Escape is pressed, or a newly accepted submission
\* clears it: the banner is hidden by nothing else and no earlier; and
\* while a message is shown the timer that removes it after 10 seconds is
\* pending.
C14_BannerLifetime ==
    [][/\ errorShown' => \E t \in timers' : t.kind = "hide"
       /\ (errorShown /\ ~errorShown') =>
             \/ Escape
             \/ ~isProcessing /\ (Submit \/ CtrlEnter)
             \/ C14_OwnTimerLeft = 0]_vars

\* the part of C14 that holds: a shown message always has a timer pending
\* that hides it 10 seconds after it was shown at the latest
C14_RemovedAtLatest == errorShown => \E t \in timers : t.kind = "hide"

\* the session state a late response could change
C15_Session ==
    <<isProcessing, latestFilename, statusEntry, statusVisible, resultsVisible, view>>

\* C15: once a request has been cancelled at its deadline its invocation
\* has ended and takes no response any more: the cancelling step leaves no
\* request outstanding and isProcessing false, an ended invocation never
\* becomes active again, and latestFilename, the status indicator, the
\* results region and isProcessing change only in a submit step or in a
\* step of an invocation that has not ended, so also while a later
\* submission is being processed.
C15_LateResponseDiscarded ==
    [][/\ (lastOutcome.kind = "processing" /\ lastOutcome'.kind = "timeout")
             => Outstanding' = {} /\ ~isProcessing'
       /\ \A i \in 1..Len(calls) : calls[i].stage = "done" => calls'[i] = calls[i]
       /\ C15_Session' # C15_Session
             => \/ Submit \/ CtrlEnter
                \/ \E j \in Outstanding : calls'[j] # calls[j]]_vars

C15_Witness ==
    /\ lastOutcome.kind = "timeout"
    /\ Len(calls) = MaxSubs /\ Outstanding = {}
    /\ ~isProcessing
    /\ statusEntry.tag = "failed" /\ errorText = MsgTimeout
    /\ latestFilename = Str(<<"r1.pdf">>)

\* C17: in every reachable state in which isProcessing is true the submit
\* control is disabled, whatever field-input events, key presses and
\* download clicks come in between.
C17_DisabledWhileProcessing == isProcessing => submitDisabled

\* C18: in every reachable state in which no request is outstanding the
\* submit control is enabled exactly when the trimmed field value has at
\* least 3 characters.
C18_EnabledIffLongEnough ==
    (Outstanding = {} /\ ~isProcessing)
        => (~submitDisabled <=> Len(Trim(fieldValue)) >= MinLen)

\* C19: a deadline timer that fires after its own invocation has ended,
\* a later request being outstanding or not, is taken off the timer table
\* and changes nothing else: the later request stays outstanding, and
\* isProcessing, latestFilename, the status indicator and the banner stay.
C19_StaleTimerHarmless ==
    [][\A t \in timers :
          (/\ t.kind = "abort" /\ t.left = 0
           /\ calls[t.ctl].stage = "done"
           /\ timers' = timers \ {t})
          => UNCHANGED <<isProcessing, latestFilename, fieldValue, inputError,
                         submitDisabled, btnLoading, errorText, errorShown,
                         resultsVisible, statusVisible, statusEntry, view,
                         location, calls, lastOutcome, writer, rendered>>]_vars

\* the timer of an ended invocation is due while a later request is
\* outstanding
C19_Witness ==
    \E t \in timers :
        /\ t.kind = "abort" /\ t.left = 0
        /\ calls[t.ctl].stage = "done"
        /\ isProcessing
        /\ \E j \in Outstanding : j > t.ctl /\ calls[j].elapsed > 0

\* C20: the status indicator is one entry that follows the session:
\* while isProcessing is true it is visible with tag 'processing'; after
\* the handling has ended it is visible with tag 'completed' exactly when
\* the submission ended as a success, with tag 'failed' for every failure
\* and cancellation; an accepted submission that does not enter processing
\* leaves it hidden.
C20_StatusFollowsSession ==
    /\ isProcessing => statusVisible /\ statusEntry.tag = "processing"
    /\ lastOutcome.kind = "success"
          => statusVisible /\ statusEntry = [tag |-> "completed", msg |-> MsgCompleted]
    /\ lastOutcome.kind \in EndKinds \ {"success"}
          => statusVisible /\ statusEntry = [tag |-> "failed", msg |-> MsgFailed]
    /\ lastOutcome.kind = "invalid" => ~statusVisible
    /\ (statusVisible /\ statusEntry.tag = "completed") => lastOutcome.kind = "success"

C20_Witness ==
    /\ lastOutcome.kind = "exception" /\ lastOutcome.filename # Undef
    /\ ~isProcessing
    /\ statusVisible /\ statusEntry.tag = "failed"

====
